---- MODULE Spec2Model ----
\* Model of TemplateUpdater (shared-resources/automation-scripts/template-updater.py):
\* the registry document, the template directories and the operations
\* create_template, update_template, remove_template and sync_from_remote.
EXTENDS Integers, Sequences, FiniteSets, TLC

\* ---------------------------------------------------------------- bounds
\* Number of operations (ticks of datetime.now()) explored.
MaxClock == 4

\* Number of processes, each one CLI invocation running one operation.
MaxProcs == 2

\* ---------------------------------------------------------------- values
Procs == 1..MaxProcs

Mutating == {"create", "update", "remove"}

Ids == {"a", "b"}

Versions == {"1.0.0", "2.0.0"}

required_files == <<"README.md", "project.json">>

recommended_dirs == <<"docs", "scripts", "templates">>

required_keys == <<"name", "version", "description">>

AllKeys == {"name", "version", "description"}

\* A project.json content: what json.load makes of it.
\*   "object"  a JSON object with the given keys
\*   "array"   a JSON array or string holding the given strings
\*   "scalar"  a JSON number, boolean or null
\*   "invalid" not well-formed JSON
NoManifest == [kind |-> "none", keys |-> {}]

Manifest(kind, keys) == [kind |-> kind, keys |-> keys]

\* A directory on disk: whether it exists, the names of its top-level
\* entries and the content of its project.json.
NoDir == [exists |-> FALSE, entries |-> {}, manifest |-> NoManifest]

Tree(entries, manifest) == [exists |-> TRUE, entries |-> entries, manifest |-> manifest]

ValidTree == Tree({"README.md", "project.json", "docs"}, Manifest("object", AllKeys))

NoReadmeTree == Tree({"project.json", "extra.txt"}, Manifest("object", AllKeys))

BadJsonTree == Tree({"README.md", "project.json"}, Manifest("invalid", {}))

ScalarTree == Tree({"README.md", "project.json"}, Manifest("scalar", {}))

\* Directories a caller may pass as source_path; NoDir is "no source given
\* or the path does not exist".
SourceDirs == {NoDir, ValidTree, NoReadmeTree, BadJsonTree, ScalarTree}

\* Root directories a downloaded archive may hold.
ArchiveRoots == {ValidTree, NoReadmeTree, ScalarTree}

\* What requests.get / raise_for_status / ZipFile / the directory scan do.
FetchOutcomes == {"transport", "status", "corrupt", "nodirs", "ok"}

\* A template record is a free-form mapping with an "id" key.
Rec(id, version) == [k \in {"id", "version"} |-> IF k = "id" THEN id ELSE version]

TemplateData == {Rec(i, "1.0.0") : i \in Ids}

Upd(k, v) == [x \in {k} |-> v]

NoFields == [x \in {} |-> ""]

\* Field updates a caller may pass to update_template.
Updates == {Upd("version", "2.0.0"), Upd("status", "draft")} \cup {Upd("id", i) : i \in Ids}

\* scratch: whether the scratch directory of a sync exists on disk.
\* vdir, verdict: a directory handed to validate_template and what came back.
\* pc, loc: for each process running one operation step by step, the step it
\* is about to take and its local variables.
VARIABLES registry, dirs, clock, last, before, scratch, vdir, verdict, pc, loc

vars == <<registry, dirs, clock, last, before, scratch, vdir, verdict, pc, loc>>

\* The state of the manager, left alone by a standalone validation.
manager_vars == <<registry, dirs, clock, last, before, scratch>>

\* The state the manager operations leave alone.
aux_vars == <<vdir, verdict, pc, loc>>

\* ---------------------------------------------------------------- registry store
EmptyDoc == [exists |-> TRUE, templates |-> <<>>,
             metadata |-> [totalTemplates |-> 0, lastUpdated |-> 0]]

NoFile == [exists |-> FALSE, templates |-> <<>>,
           metadata |-> [totalTemplates |-> 0, lastUpdated |-> 0]]

\* load_registry: raises FileNotFoundError when the file is missing.
load_registry(file) == [raised |-> ~file.exists, doc |-> file]

\* save_registry: the file becomes exactly the document.
save_registry(doc) == [doc EXCEPT !.exists = TRUE]

list_templates(file) == load_registry(file).doc.templates

FirstIndex(templates, id) ==
    IF \E i \in 1..Len(templates) : templates[i]["id"] = id
    THEN CHOOSE i \in 1..Len(templates) :
            /\ templates[i]["id"] = id
            /\ \A j \in 1..(i - 1) : templates[j]["id"] # id
    ELSE 0

\* get_template: the first record with the id, or None.
get_template(file, id) ==
    LET ts == list_templates(file)
        i == FirstIndex(ts, id)
    IN  [found |-> i # 0, record |-> IF i # 0 THEN ts[i] ELSE NoFields]

\* ---------------------------------------------------------------- validator
MissingFileMsg(file) ==
    IF file = "README.md" THEN "Missing required file: README.md"
    ELSE "Missing required file: project.json"

MissingDirMsg(dir_name) ==
    CASE dir_name = "docs" -> "Missing recommended directory: docs"
      [] dir_name = "scripts" -> "Missing recommended directory: scripts"
      [] OTHER -> "Missing recommended directory: templates"

MissingKeyMsg(key) ==
    CASE key = "name" -> "Missing key in project.json: name"
      [] key = "version" -> "Missing key in project.json: version"
      [] OTHER -> "Missing key in project.json: description"

InvalidJsonMsg == "Invalid JSON in project.json"

\* validate_template: the verdict for a directory. raised is the TypeError
\* of "key not in project_data" when project.json holds a scalar; no verdict
\* is returned then, and issues is the list as it was when the error rose.
validate_template(d) ==
    LET missing_files == SelectSeq(required_files, LAMBDA f : f \notin d.entries)
        file_issues == [i \in 1..Len(missing_files) |-> MissingFileMsg(missing_files[i])]
        missing_dirs == SelectSeq(recommended_dirs, LAMBDA n : n \notin d.entries)
        warnings == [i \in 1..Len(missing_dirs) |-> MissingDirMsg(missing_dirs[i])]
        has_manifest == "project.json" \in d.entries
        missing_keys == SelectSeq(required_keys, LAMBDA k : k \notin d.manifest.keys)
        key_issues ==
            IF ~has_manifest THEN <<>>
            ELSE IF d.manifest.kind = "invalid" THEN <<InvalidJsonMsg>>
            ELSE IF d.manifest.kind = "scalar" THEN <<>>
            ELSE [i \in 1..Len(missing_keys) |-> MissingKeyMsg(missing_keys[i])]
        issues == file_issues \o key_issues
    IN  [raised |-> has_manifest /\ d.manifest.kind = "scalar",
         valid |-> Len(issues) = 0,
         issues |-> issues,
         warnings |-> warnings]

\* ---------------------------------------------------------------- file system
\* Path.mkdir(parents=True, exist_ok=True)
mkdir(d) == IF d.exists THEN d ELSE Tree({}, NoManifest)

\* shutil.copytree(src, dst, dirs_exist_ok=True): entries of src are written
\* over dst, entries only in dst stay.
copytree_merge(src, dst) ==
    Tree(dst.entries \cup src.entries,
         IF "project.json" \in src.entries THEN src.manifest ELSE dst.manifest)

\* shutil.copytree(src, dst): dst must not exist (FileExistsError otherwise).
copytree(src, dst) ==
    IF dst.exists THEN [raised |-> TRUE, dir |-> dst]
    ELSE [raised |-> FALSE, dir |-> Tree(src.entries, src.manifest)]

\* shutil.rmtree(path)
rmtree(d) == NoDir

\* ---------------------------------------------------------------- manager
\* A count kept by incrementing instead of recomputing.
set_metadata_increment(doc, templates, now) ==
    [doc EXCEPT !.templates = templates,
                !.metadata.totalTemplates = doc.metadata.totalTemplates + 1,
                !.metadata.lastUpdated = now]

\* registry['templates'] = templates, then totalTemplates and lastUpdated.
set_metadata(doc, templates, now) ==
    [doc EXCEPT !.templates = templates,
                !.metadata.totalTemplates = Len(templates),
                !.metadata.lastUpdated = now]

\* A create that writes the registry before looking at the verdict.
create_template_early_save(file, d, now, template_id, template_data, source_path) ==
    LET made == mkdir(d)
        template_path == IF source_path.exists THEN copytree_merge(source_path, made) ELSE made
        validation == validate_template(template_path)
        loaded == load_registry(file)
        kept == SelectSeq(loaded.doc.templates, LAMBDA t : t["id"] # template_id)
        templates == Append(kept, template_data)
        new_registry == set_metadata(loaded.doc, templates, now)
        saved == IF loaded.raised THEN file ELSE save_registry(new_registry)
    IN  IF loaded.raised
        THEN [file |-> file, dir |-> template_path, result |-> "raise"]
        ELSE IF validation.raised
        THEN [file |-> saved, dir |-> template_path, result |-> "raise"]
        ELSE IF ~validation.valid
        THEN [file |-> saved, dir |-> template_path, result |-> "False"]
        ELSE [file |-> saved, dir |-> template_path, result |-> "True"]

\* create_template: the registry file, the template directory and the
\* outcome ("True", "False" or "raise") after the call.
create_template(file, d, now, template_id, template_data, source_path) ==
    LET made == mkdir(d)
        template_path == IF source_path.exists THEN copytree_merge(source_path, made) ELSE made
        validation == validate_template(template_path)
        loaded == load_registry(file)
        kept == SelectSeq(loaded.doc.templates, LAMBDA t : t["id"] # template_id)
        templates == Append(kept, template_data)
        new_registry == set_metadata(loaded.doc, templates, now)
    IN  IF validation.raised
        THEN [file |-> file, dir |-> template_path, result |-> "raise"]
        ELSE IF ~validation.valid
        THEN [file |-> file, dir |-> template_path, result |-> "False"]
        ELSE IF loaded.raised
        THEN [file |-> file, dir |-> template_path, result |-> "raise"]
        ELSE [file |-> save_registry(new_registry), dir |-> template_path, result |-> "True"]

\* An update that replaces the record by the updates.
dict_update_replace(template, updates) ==
    [k \in {"id"} \cup (DOMAIN updates) |->
        IF k \in DOMAIN updates THEN updates[k] ELSE template[k]]

\* dict.update: keys of updates overwrite, other keys stay.
dict_update(template, updates) ==
    [k \in (DOMAIN template) \cup (DOMAIN updates) |->
        IF k \in DOMAIN updates THEN updates[k] ELSE template[k]]

\* An update that stamps and saves the registry before the lookup result is used.
update_template_always_save(file, now, template_id, updates) ==
    LET loaded == load_registry(file)
        templates == loaded.doc.templates
        i == FirstIndex(templates, template_id)
        stamped == [loaded.doc EXCEPT !.metadata.lastUpdated = now]
        new_registry == [stamped EXCEPT !.templates[i] = dict_update(templates[i], updates)]
    IN  IF loaded.raised THEN [file |-> file, result |-> "raise"]
        ELSE IF i = 0 THEN [file |-> save_registry(stamped), result |-> "False"]
        ELSE [file |-> save_registry(new_registry), result |-> "True"]

\* update_template: the registry file and the outcome after the call.
update_template(file, now, template_id, updates) ==
    LET loaded == load_registry(file)
        templates == loaded.doc.templates
        i == FirstIndex(templates, template_id)
        new_registry == [loaded.doc EXCEPT !.templates[i] = dict_update(templates[i], updates),
                                           !.metadata.lastUpdated = now]
    IN  IF loaded.raised THEN [file |-> file, result |-> "raise"]
        ELSE IF i = 0 THEN [file |-> file, result |-> "False"]
        ELSE [file |-> save_registry(new_registry), result |-> "True"]

\* A remove that deletes the directory before looking the id up.
remove_template_delete_first(file, d, now, template_id) ==
    LET loaded == load_registry(file)
        original_count == Len(loaded.doc.templates)
        templates == SelectSeq(loaded.doc.templates, LAMBDA t : t["id"] # template_id)
        new_registry == set_metadata(loaded.doc, templates, now)
        deleted == IF d.exists THEN rmtree(d) ELSE d
    IN  IF loaded.raised THEN [file |-> file, dir |-> d, result |-> "raise"]
        ELSE IF Len(templates) = original_count
        THEN [file |-> file, dir |-> deleted, result |-> "False"]
        ELSE [file |-> save_registry(new_registry), dir |-> deleted, result |-> "True"]

\* remove_template: the registry file, the template directory and the outcome.
remove_template(file, d, now, template_id) ==
    LET loaded == load_registry(file)
        original_count == Len(loaded.doc.templates)
        templates == SelectSeq(loaded.doc.templates, LAMBDA t : t["id"] # template_id)
        new_registry == set_metadata(loaded.doc, templates, now)
    IN  IF loaded.raised THEN [file |-> file, dir |-> d, result |-> "raise"]
        ELSE IF Len(templates) = original_count
        THEN [file |-> file, dir |-> d, result |-> "False"]
        ELSE [file |-> save_registry(new_registry),
              dir |-> IF d.exists THEN rmtree(d) ELSE d,
              result |-> "True"]

\* An except clause that names only the transport errors of requests.
caught_requests_only(exc) == exc \in {"transport", "status"}

\* except Exception: every exception raised inside the try block is caught.
caught(exc) == exc \in {"transport", "status", "corrupt", "nodirs", "exists", "type"}

\* A scratch directory removed only at the end of a block that ran through.
tempdir_exit_on_success(exc) == exc # "none"

\* TemporaryDirectory.__exit__: whether the scratch directory still exists
\* after the with block ended normally, by return or with exception exc.
tempdir_exit(exc) == FALSE

\* A sync that copies over the existing directory instead of replacing it.
sync_from_remote_merges(file, d, template_id, fetch, source_dir) ==
    LET template_path == copytree_merge(source_dir, mkdir(d))
        validation == validate_template(template_path)
        exc == IF fetch # "ok" THEN fetch
               ELSE IF validation.raised THEN "type"
               ELSE "none"
    IN  [file |-> file,
         dir |-> IF fetch # "ok" THEN d ELSE template_path,
         scratch |-> tempdir_exit(exc),
         result |-> IF exc # "none" THEN (IF caught(exc) THEN "False" ELSE "raise")
                    ELSE IF ~validation.valid THEN "False"
                    ELSE "True"]

\* A sync that validates the fetched root first and replaces only a valid one.
sync_from_remote_staged(file, d, template_id, fetch, source_dir) ==
    LET validation == validate_template(source_dir)
        removed == IF d.exists THEN rmtree(d) ELSE d
        copied == copytree(source_dir, removed)
        exc == IF fetch # "ok" THEN fetch
               ELSE IF validation.raised THEN "type"
               ELSE "none"
    IN  [file |-> file,
         dir |-> IF exc = "none" /\ validation.valid THEN copied.dir ELSE d,
         scratch |-> tempdir_exit(exc),
         result |-> IF exc # "none" THEN (IF caught(exc) THEN "False" ELSE "raise")
                    ELSE IF ~validation.valid THEN "False"
                    ELSE "True"]

\* A sync that deletes the existing directory before it downloads.
sync_from_remote_delete_first(file, d, template_id, fetch, source_dir) ==
    LET removed == IF d.exists THEN rmtree(d) ELSE d
        copied == copytree(source_dir, removed)
        template_path == copied.dir
        validation == validate_template(template_path)
        exc == IF fetch # "ok" THEN fetch
               ELSE IF copied.raised THEN "exists"
               ELSE IF validation.raised THEN "type"
               ELSE "none"
    IN  [file |-> file,
         dir |-> IF fetch # "ok" THEN removed ELSE template_path,
         scratch |-> tempdir_exit(exc),
         result |-> IF exc # "none" THEN (IF caught(exc) THEN "False" ELSE "raise")
                    ELSE IF ~validation.valid THEN "False"
                    ELSE "True"]

\* A sync that records the synced template in the registry on success.
sync_from_remote_registers(file, d, template_id, fetch, source_dir) ==
    LET removed == IF d.exists THEN rmtree(d) ELSE d
        copied == copytree(source_dir, removed)
        template_path == copied.dir
        validation == validate_template(template_path)
        exc == IF fetch # "ok" THEN fetch
               ELSE IF copied.raised THEN "exists"
               ELSE IF validation.raised THEN "type"
               ELSE "none"
        kept == SelectSeq(file.templates, LAMBDA t : t["id"] # template_id)
        templates == Append(kept, Rec(template_id, "1.0.0"))
        ok == exc = "none" /\ validation.valid
    IN  [file |-> IF ok /\ file.exists
                  THEN save_registry(set_metadata(file, templates, file.metadata.lastUpdated))
                  ELSE file,
         dir |-> IF fetch # "ok" THEN d ELSE template_path,
         scratch |-> tempdir_exit(exc),
         result |-> IF exc # "none" THEN (IF caught(exc) THEN "False" ELSE "raise")
                    ELSE IF ~validation.valid THEN "False"
                    ELSE "True"]

\* sync_from_remote: fetch is what the download, the extraction and the scan
\* for a top-level directory did; source_dir is the first extracted directory.
\* exc is the exception that ended the with block, "none" when it returned.
sync_from_remote(file, d, template_id, fetch, source_dir) ==
    LET removed == IF d.exists THEN rmtree(d) ELSE d
        copied == copytree(source_dir, removed)
        template_path == copied.dir
        validation == validate_template(template_path)
        exc == IF fetch # "ok" THEN fetch
               ELSE IF copied.raised THEN "exists"
               ELSE IF validation.raised THEN "type"
               ELSE "none"
    IN  [file |-> file,
         dir |-> IF fetch # "ok" THEN d ELSE template_path,
         scratch |-> tempdir_exit(exc),
         result |-> IF exc # "none" THEN (IF caught(exc) THEN "False" ELSE "raise")
                    ELSE IF ~validation.valid THEN "False"
                    ELSE "True"]

\* ---------------------------------------------------------------- state machine
Call(op, id, fields, source, fetch, result) ==
    [op |-> op, id |-> id, fields |-> fields, source |-> source,
     fetch |-> fetch, result |-> result]

Snapshot == [registry |-> registry, dirs |-> dirs]

\* The local variables of a process that has not started.
\*   doc      the registry document it loaded
\*   entry    the registry file when it started, clock0 the clock then
\*   loaded_at, saved_at  the clock at its load and after its save
\*   deleted  whether it has run its rmtree step
\*   at       the step it was about to take when it crashed
NoLocal == [op |-> "none", id |-> "a", fields |-> NoFields, source |-> NoDir,
            doc |-> NoFile, entry |-> NoFile, clock0 |-> 0,
            loaded_at |-> 0, saved_at |-> 0, deleted |-> FALSE,
            at |-> "idle", result |-> "none"]

\* Nothing validated yet.
NoVerdict == [done |-> FALSE, raised |-> FALSE, valid |-> FALSE,
              issues |-> <<>>, warnings |-> <<>>]

Init ==
    /\ registry \in {EmptyDoc, NoFile}
    /\ dirs = [i \in Ids |-> NoDir]
    /\ clock = 0
    /\ last = Call("none", "a", NoFields, NoDir, "none", "none")
    /\ before = Snapshot
    /\ scratch = FALSE
    /\ vdir = NoDir
    /\ verdict = NoVerdict
    /\ pc = [p \in Procs |-> "idle"]
    /\ loc = [p \in Procs |-> NoLocal]

Create ==
    \E id \in Ids, template_data \in TemplateData, source_path \in SourceDirs :
        /\ clock < MaxClock
        /\ LET r == create_template(registry, dirs[id], clock + 1, id, template_data, source_path)
           IN  /\ registry' = r.file
               /\ dirs' = [dirs EXCEPT ![id] = r.dir]
               /\ last' = Call("create", id, template_data, source_path, "none", r.result)
        /\ clock' = clock + 1
        /\ before' = Snapshot
        /\ scratch' = scratch
        /\ UNCHANGED aux_vars

Update ==
    \E id \in Ids, updates \in Updates :
        /\ clock < MaxClock
        /\ LET r == update_template(registry, clock + 1, id, updates)
           IN  /\ registry' = r.file
               /\ last' = Call("update", id, updates, NoDir, "none", r.result)
        /\ dirs' = dirs
        /\ clock' = clock + 1
        /\ before' = Snapshot
        /\ scratch' = scratch
        /\ UNCHANGED aux_vars

Remove ==
    \E id \in Ids :
        /\ clock < MaxClock
        /\ LET r == remove_template(registry, dirs[id], clock + 1, id)
           IN  /\ registry' = r.file
               /\ dirs' = [dirs EXCEPT ![id] = r.dir]
               /\ last' = Call("remove", id, NoFields, NoDir, "none", r.result)
        /\ clock' = clock + 1
        /\ before' = Snapshot
        /\ scratch' = scratch
        /\ UNCHANGED aux_vars

Sync ==
    \E id \in Ids, fetch \in FetchOutcomes, source_dir \in ArchiveRoots :
        /\ clock < MaxClock
        /\ fetch # "ok" => source_dir = ValidTree
        /\ LET r == sync_from_remote(registry, dirs[id], id, fetch, source_dir)
           IN  /\ registry' = r.file
               /\ dirs' = [dirs EXCEPT ![id] = r.dir]
               /\ scratch' = r.scratch
               /\ last' = Call("sync", id, NoFields, source_dir, fetch, r.result)
        /\ clock' = clock + 1
        /\ before' = Snapshot
        /\ UNCHANGED aux_vars

Next == Create \/ Update \/ Remove \/ Sync

Spec == Init /\ [][Next]_vars

TypeOK ==
    /\ clock \in 0..MaxClock
    /\ registry.exists \in BOOLEAN
    /\ \A i \in Ids : dirs[i].exists \in BOOLEAN

\* ---------------------------------------------------------------- processes
\* One operation of one process as the steps it takes on the shared files:
\*   "fs"      create_template up to the verdict (mkdir, copytree, validate)
\*   "load"    load_registry and the lookup that may return early
\*   "save"    the in-memory change, the metadata and save_registry
\*   "rmtree"  remove_template's deletion of the directory
\* The clock ticks at every save.
first_step(op) == IF op = "create" THEN "fs" ELSE "load"

\* A remove that deletes the directory before it saves the registry.
next_step_delete_first(op, step) ==
    CASE step = "fs" -> "load"
      [] step = "load" -> IF op = "remove" THEN "rmtree" ELSE "save"
      [] step = "rmtree" -> "save"
      [] OTHER -> "done"

\* The step after a step that did not return.
next_step(op, step) ==
    CASE step = "fs" -> "load"
      [] step = "load" -> "save"
      [] step = "save" -> IF op = "remove" THEN "rmtree" ELSE "done"
      [] OTHER -> "done"

\* A load that writes an empty registry when the file is missing.
read_file_creates(file) ==
    IF file.exists THEN [raised |-> FALSE, doc |-> file, file |-> file]
    ELSE [raised |-> FALSE, doc |-> EmptyDoc, file |-> EmptyDoc]

\* load_registry on the shared file: opened for reading, the file stays.
read_file(file) ==
    [raised |-> load_registry(file).raised, doc |-> load_registry(file).doc, file |-> file]

\* Whether the lookup in the loaded document lets the operation go on.
found(l, doc) == l.op = "create" \/ FirstIndex(doc.templates, l.id) # 0

\* The document the operation builds in memory from the one it loaded.
in_memory(l, now) ==
    CASE l.op = "create" ->
            set_metadata(l.doc,
                         Append(SelectSeq(l.doc.templates, LAMBDA t : t["id"] # l.id), l.fields),
                         now)
      [] l.op = "update" ->
            [l.doc EXCEPT !.templates[FirstIndex(l.doc.templates, l.id)] =
                              dict_update(l.doc.templates[FirstIndex(l.doc.templates, l.id)],
                                          l.fields),
                          !.metadata.lastUpdated = now]
      [] OTHER ->
            set_metadata(l.doc, SelectSeq(l.doc.templates, LAMBDA t : t["id"] # l.id), now)

\* A save that refuses to write over a file changed since it was loaded.
write_file_checked(file, l, now) ==
    IF file = l.doc THEN save_registry(in_memory(l, now)) ELSE file

\* save_registry on the shared file: the file becomes the in-memory document,
\* whatever the file holds by now.
write_file(file, l, now) == save_registry(in_memory(l, now))

\* A registry with one template and its directory, as create_template leaves it.
SeededDoc == [exists |-> TRUE, templates |-> <<Rec("a", "1.0.0")>>,
              metadata |-> [totalTemplates |-> 1, lastUpdated |-> 0]]

\* Directories a process may pass as source_path.
ProcSources == {ValidTree, BadJsonTree}

ProcInit ==
    /\ \/ registry \in {EmptyDoc, NoFile} /\ dirs = [i \in Ids |-> NoDir]
       \/ registry = SeededDoc /\ dirs = [i \in Ids |-> IF i = "a" THEN ValidTree ELSE NoDir]
    /\ clock = 0
    /\ last = Call("none", "a", NoFields, NoDir, "none", "none")
    /\ before = Snapshot
    /\ scratch = FALSE
    /\ vdir = NoDir
    /\ verdict = NoVerdict
    /\ pc = [p \in Procs |-> "idle"]
    /\ loc = [p \in Procs |-> NoLocal]

Returned(p, l, result) ==
    /\ pc' = [pc EXCEPT ![p] = "done"]
    /\ loc' = [loc EXCEPT ![p] = [l EXCEPT !.result = result]]

Goes(p, l, step) ==
    IF step = "done" THEN Returned(p, l, "True")
    ELSE /\ pc' = [pc EXCEPT ![p] = step]
         /\ loc' = [loc EXCEPT ![p] = l]

Begin(p, op, id, fields, source) ==
    /\ pc' = [pc EXCEPT ![p] = first_step(op)]
    /\ loc' = [loc EXCEPT ![p] = [NoLocal EXCEPT !.op = op, !.id = id, !.fields = fields,
                                                   !.source = source,
                                                   !.entry = registry, !.clock0 = clock]]

\* A process is started with an operation and its arguments. Processes are
\* started in the order of their numbers.
ProcStart(p) ==
    /\ pc[p] = "idle"
    /\ IF p = 1 THEN TRUE ELSE pc[p - 1] # "idle"
    /\ \E id \in Ids :
        \/ \E template_data \in TemplateData, source_path \in ProcSources :
                Begin(p, "create", id, template_data, source_path)
        \/ \E updates \in Updates : Begin(p, "update", id, updates, NoDir)
        \/ Begin(p, "remove", id, NoFields, NoDir)
    /\ UNCHANGED <<manager_vars, vdir, verdict>>

ProcFs(p) ==
    /\ pc[p] = "fs"
    /\ LET l == loc[p]
           made == mkdir(dirs[l.id])
           template_path == IF l.source.exists THEN copytree_merge(l.source, made) ELSE made
           validation == validate_template(template_path)
       IN  /\ dirs' = [dirs EXCEPT ![l.id] = template_path]
           /\ IF validation.raised THEN Returned(p, l, "raise")
              ELSE IF ~validation.valid THEN Returned(p, l, "False")
              ELSE Goes(p, l, next_step(l.op, "fs"))
    /\ UNCHANGED <<registry, clock, last, before, scratch, vdir, verdict>>

ProcLoad(p) ==
    /\ pc[p] = "load"
    /\ LET r == read_file(registry)
           l == [loc[p] EXCEPT !.doc = r.doc, !.loaded_at = clock]
       IN  /\ registry' = r.file
           /\ IF r.raised THEN Returned(p, loc[p], "raise")
              ELSE IF ~found(l, r.doc) THEN Returned(p, l, "False")
              ELSE Goes(p, l, next_step(l.op, "load"))
    /\ UNCHANGED <<dirs, clock, last, before, scratch, vdir, verdict>>

ProcSave(p) ==
    /\ pc[p] = "save"
    /\ LET l == [loc[p] EXCEPT !.saved_at = clock + 1]
       IN  /\ registry' = write_file(registry, l, clock + 1)
           /\ Goes(p, l, next_step(l.op, "save"))
    /\ clock' = clock + 1
    /\ UNCHANGED <<dirs, last, before, scratch, vdir, verdict>>

ProcRmtree(p) ==
    /\ pc[p] = "rmtree"
    /\ LET l == [loc[p] EXCEPT !.deleted = TRUE]
       IN  /\ dirs' = [dirs EXCEPT ![l.id] = IF dirs[l.id].exists THEN rmtree(dirs[l.id])
                                              ELSE dirs[l.id]]
           /\ Goes(p, l, next_step(l.op, "rmtree"))
    /\ UNCHANGED <<registry, clock, last, before, scratch, vdir, verdict>>

\* The process dies before the step it was about to take.
ProcCrash(p) ==
    /\ pc[p] \in {"fs", "load", "save", "rmtree"}
    /\ pc' = [pc EXCEPT ![p] = "crashed"]
    /\ loc' = [loc EXCEPT ![p].at = pc[p]]
    /\ UNCHANGED <<manager_vars, vdir, verdict>>

ProcNext ==
    \E p \in Procs :
        \/ ProcStart(p)
        \/ ProcFs(p)
        \/ ProcLoad(p)
        \/ ProcSave(p)
        \/ ProcRmtree(p)
        \/ ProcCrash(p)

SpecProc == ProcInit /\ [][ProcNext]_vars

\* ---------------------------------------------------------------- standalone validation
\* Names a template directory may hold at its top level.
EntryNames == {"README.md", "project.json", "docs", "scripts", "templates"}

\* What json.load can make of a project.json.
Manifests ==
    {Manifest(kind, keys) : kind \in {"object", "array"}, keys \in SUBSET AllKeys}
        \cup {Manifest("scalar", {}), Manifest("invalid", {})}

\* Every directory over EntryNames, and the path that does not exist.
AllTrees ==
    {Tree(e, NoManifest) : e \in SUBSET (EntryNames \ {"project.json"})}
        \cup {Tree(e \cup {"project.json"}, m) :
                e \in SUBSET (EntryNames \ {"project.json"}), m \in Manifests}
        \cup {NoDir}

ValidateInit ==
    /\ registry = EmptyDoc
    /\ dirs = [i \in Ids |-> NoDir]
    /\ clock = 0
    /\ last = Call("none", "a", NoFields, NoDir, "none", "none")
    /\ before = Snapshot
    /\ scratch = FALSE
    /\ vdir \in AllTrees
    /\ verdict = NoVerdict
    /\ pc = [p \in Procs |-> "idle"]
    /\ loc = [p \in Procs |-> NoLocal]

\* The CLI validate command: validate_template on a directory, nothing else.
Validate ==
    /\ ~verdict.done
    /\ LET v == validate_template(vdir)
       IN  verdict' = [done |-> TRUE, raised |-> v.raised, valid |-> v.valid,
                       issues |-> v.issues, warnings |-> v.warnings]
    /\ UNCHANGED <<vdir, manager_vars, pc, loc>>

ValidateNext == Validate

SpecValidate == ValidateInit /\ [][ValidateNext]_vars

\* ---------------------------------------------------------------- properties
Succeeded(op) == last.op = op /\ last.result = "True"

HasId(templates, id) == FirstIndex(templates, id) # 0

OtherDirsUnchanged == \A i \in Ids \ {last.id} : dirs[i] = before.dirs[i]

\* C1: after every successful create, update or remove the saved registry
\* has metadata.totalTemplates equal to the number of records in templates.
C1_TotalMatchesLength ==
    (last.op \in Mutating /\ last.result = "True")
        => registry.metadata.totalTemplates = Len(registry.templates)

\* A create that replaced a record while other records were present.
C1_Witness ==
    /\ Succeeded("create")
    /\ HasId(before.registry.templates, last.id)
    /\ Len(registry.templates) = 2

\* C2: no two records of the registry have the same id.
C2_UniqueIds ==
    \A i, j \in 1..Len(registry.templates) :
        i # j => registry.templates[i]["id"] # registry.templates[j]["id"]

\* C3: sync_from_remote leaves the registry file as it was, on every exit path.
C3_SyncLeavesRegistry ==
    last.op = "sync" => registry = before.registry

\* A successful sync that replaced the directory of a registered template.
C3_Witness ==
    /\ Succeeded("sync")
    /\ HasId(registry.templates, last.id)
    /\ before.dirs[last.id].exists
    /\ dirs[last.id] # before.dirs[last.id]

\* The directory create_template validates: the template directory after
\* mkdir and the copy of the source.
C4_CopyLeft ==
    LET made == mkdir(before.dirs[last.id])
    IN  IF last.source.exists THEN copytree_merge(last.source, made) ELSE made

C4_FoundInvalid ==
    /\ last.op = "create"
    /\ ~validate_template(C4_CopyLeft).raised
    /\ ~validate_template(C4_CopyLeft).valid

\* C4: when create_template finds the directory invalid it returns False,
\* the registry file is as before, and the directory is left as the copy made it.
C4_InvalidCreateAborts ==
    C4_FoundInvalid =>
        /\ last.result = "False"
        /\ registry = before.registry
        /\ dirs[last.id].exists
        /\ dirs[last.id] = C4_CopyLeft
        /\ OtherDirsUnchanged

\* An invalid create whose copy added entries to a directory, with a registry
\* that exists and holds records.
C4_Witness ==
    /\ C4_FoundInvalid
    /\ last.source.exists
    /\ registry.exists
    /\ Len(registry.templates) > 0
    /\ dirs[last.id].entries # before.dirs[last.id].entries

\* C5: a successful create of an id not yet registered is followed by
\* get_template(id) returning a record with that id and the supplied fields,
\* and totalTemplates is one more than before.
C5_CreateThenGet ==
    (Succeeded("create") /\ ~HasId(before.registry.templates, last.id)) =>
        LET got == get_template(registry, last.id)
        IN  /\ got.found
            /\ got.record["id"] = last.id
            /\ \A k \in DOMAIN last.fields : got.record[k] = last.fields[k]
            /\ registry.metadata.totalTemplates = before.registry.metadata.totalTemplates + 1

\* C6: after a successful remove the id is not found, its directory does not
\* exist, and totalTemplates is one less than before.
C6_RemovePostcondition ==
    Succeeded("remove") =>
        /\ ~get_template(registry, last.id).found
        /\ ~dirs[last.id].exists
        /\ registry.metadata.totalTemplates = before.registry.metadata.totalTemplates - 1

C7_NoMatch ==
    /\ last.op = "remove"
    /\ before.registry.exists
    /\ ~HasId(before.registry.templates, last.id)

\* C7: remove_template of an id that matches no record returns False and
\* changes neither the registry file nor any template directory.
C7_RemoveAbsentIsNoop ==
    C7_NoMatch =>
        /\ last.result = "False"
        /\ registry = before.registry
        /\ dirs = before.dirs

\* A remove of an unregistered id whose directory exists on disk, from a
\* registry holding another record.
C7_Witness ==
    /\ C7_NoMatch
    /\ Len(before.registry.templates) > 0
    /\ before.dirs[last.id].exists

C8_Index == FirstIndex(before.registry.templates, last.id)

\* C8: a successful update sets each key of the updates on the record found
\* for the id, keeps that record's other fields, keeps every other record,
\* and keeps totalTemplates; in the metadata only lastUpdated may change.
C8_UpdateMergesWithFrame ==
    Succeeded("update") =>
        LET old == before.registry.templates
            new == registry.templates
            i == C8_Index
        IN  /\ Len(new) = Len(old)
            /\ \A k \in DOMAIN last.fields : k \in DOMAIN new[i] /\ new[i][k] = last.fields[k]
            /\ \A k \in (DOMAIN old[i]) \ (DOMAIN last.fields) :
                    k \in DOMAIN new[i] /\ new[i][k] = old[i][k]
            /\ DOMAIN new[i] = (DOMAIN old[i]) \cup (DOMAIN last.fields)
            /\ \A j \in 1..Len(old) : j # i => new[j] = old[j]
            /\ registry.metadata.totalTemplates = before.registry.metadata.totalTemplates
            /\ registry.exists = before.registry.exists

\* An update of one field of a record that has other fields, next to another record.
C8_Witness ==
    /\ Succeeded("update")
    /\ Len(registry.templates) = 2
    /\ DOMAIN last.fields = {"version"}
    /\ registry.templates[C8_Index]["version"] # before.registry.templates[C8_Index]["version"]
    /\ registry.metadata.lastUpdated # before.registry.metadata.lastUpdated

C9_Absent ==
    /\ last.op = "update"
    /\ before.registry.exists
    /\ ~HasId(before.registry.templates, last.id)

\* C9: update_template of an id absent from the registry returns False and
\* leaves the registry file unchanged, lastUpdated included.
C9_UpdateAbsentIsNoop ==
    C9_Absent =>
        /\ last.result = "False"
        /\ registry = before.registry

\* An update of an absent id on a registry that holds another record.
C9_Witness ==
    /\ C9_Absent
    /\ Len(before.registry.templates) > 0
    /\ clock > before.registry.metadata.lastUpdated

\* C10: after a successful update the record found for the id still has that id.
C10_IdImmutable ==
    Succeeded("update") => registry.templates[C8_Index]["id"] = last.id

\* C11: every id recorded in the registry has an existing template directory.
C11_RegisteredHaveDir ==
    \A i \in 1..Len(registry.templates) : dirs[registry.templates[i]["id"]].exists

C12_Copied == last.op = "sync" /\ last.fetch = "ok"

\* C12: once sync_from_remote has copied, the template directory holds exactly
\* the fetched root and nothing of the directory it replaced, while the copy
\* of create_template keeps what the directory held.
C12_SyncReplaces ==
    /\ C12_Copied =>
            /\ dirs[last.id].exists
            /\ dirs[last.id].entries = last.source.entries
            /\ dirs[last.id].manifest = last.source.manifest
    /\ (last.op = "create" /\ last.source.exists) =>
            dirs[last.id].entries = before.dirs[last.id].entries \cup last.source.entries

\* A sync over a directory that held an entry the fetched root does not have.
C12_Witness ==
    /\ C12_Copied
    /\ before.dirs[last.id].entries \ last.source.entries # {}
    /\ last.source.entries \ before.dirs[last.id].entries # {}

C13_CopiedInvalid ==
    /\ C12_Copied
    /\ ~validate_template(last.source).raised
    /\ ~validate_template(last.source).valid

\* C13: when the directory copied by sync_from_remote is found invalid the call
\* returns False and the template directory holds the fetched contents, not
\* the contents it had before the sync.
C13_NoRollback ==
    C13_CopiedInvalid =>
        /\ last.result = "False"
        /\ dirs[last.id] = Tree(last.source.entries, last.source.manifest)

\* A failed sync that replaced a valid template directory by an invalid one.
C13_Witness ==
    /\ C13_CopiedInvalid
    /\ before.dirs[last.id].exists
    /\ validate_template(before.dirs[last.id]).valid
    /\ ~validate_template(before.dirs[last.id]).raised
    /\ dirs[last.id] # before.dirs[last.id]

\* C14: sync_from_remote never raises; a transport failure, a non-success
\* status, a corrupt archive or an archive without a top-level directory
\* makes it return False.
C14_SyncNeverRaises ==
    last.op = "sync" =>
        /\ last.result # "raise"
        /\ last.fetch # "ok" => last.result = "False"

\* A sync whose archive held no top-level directory.
C14_Witness == last.op = "sync" /\ last.fetch = "nodirs" /\ last.result = "False"

\* C15: when sync_from_remote has returned, its scratch directory does not exist.
C15_ScratchReleased == last.op = "sync" => ~scratch

\* A sync that ended with an exception after the scratch directory was made.
C15_Witness == last.op = "sync" /\ last.fetch = "corrupt" /\ last.result = "False"

Count(seq, x) == Cardinality({i \in 1..Len(seq) : seq[i] = x})

KeyMsgs == {MissingKeyMsg(required_keys[i]) : i \in 1..Len(required_keys)}

HasKeyMsg(seq) == \E i \in 1..Len(seq) : seq[i] \in KeyMsgs

C19_WellFormed ==
    /\ "README.md" \in vdir.entries
    /\ "project.json" \in vdir.entries
    /\ vdir.manifest.kind = "object"
    /\ AllKeys \subseteq vdir.manifest.keys

\* C19: validate_template returns a verdict for every directory, with
\* valid = (issues is empty), and issues is empty exactly when README.md and
\* project.json exist and project.json is an object with name, version and
\* description; the warnings do not enter valid.
C19_ValidIffWellFormed ==
    verdict.done =>
        /\ ~verdict.raised
        /\ verdict.valid = (verdict.issues = <<>>)
        /\ (verdict.issues = <<>>) = C19_WellFormed

\* C20: invalid JSON gives exactly one "Invalid JSON" issue and no "Missing key"
\* issue; an absent project.json gives exactly one "Missing required file:
\* project.json" issue and no other issue about it; an absent README.md gives
\* exactly one "Missing required file: README.md" issue.
C20_NoDuplicateIssues ==
    verdict.done =>
        /\ ("project.json" \in vdir.entries /\ vdir.manifest.kind = "invalid") =>
                /\ ~verdict.raised
                /\ Count(verdict.issues, InvalidJsonMsg) = 1
                /\ ~HasKeyMsg(verdict.issues)
        /\ "project.json" \notin vdir.entries =>
                /\ ~verdict.raised
                /\ Count(verdict.issues, MissingFileMsg("project.json")) = 1
                /\ Count(verdict.issues, InvalidJsonMsg) = 0
                /\ ~HasKeyMsg(verdict.issues)
        /\ "README.md" \notin vdir.entries =>
                /\ ~verdict.raised
                /\ Count(verdict.issues, MissingFileMsg("README.md")) = 1

\* The process has not run its save step: it is at a step up to the save,
\* or it crashed there.
C16_BeforeSave(p) ==
    /\ loc[p].saved_at = 0
    /\ \/ pc[p] \in {"fs", "load", "save"}
       \/ pc[p] = "crashed" /\ loc[p].at \in {"fs", "load", "save"}

\* C16: as long as a mutating operation has not run its save (crashed before
\* it or still on its way) and no other process has saved, the registry file
\* is what it was when the operation began.
C16_OnlySaveTouchesFile ==
    \A p \in Procs :
        (C16_BeforeSave(p) /\ clock = loc[p].clock0) => registry = loc[p].entry

\* A create that crashed between its load and its save; the record it had
\* built is not in the file.
C16_Witness ==
    \E p \in Procs :
        /\ pc[p] = "crashed"
        /\ loc[p].at = "save"
        /\ loc[p].op = "create"
        /\ clock = loc[p].clock0
        /\ registry.exists
        /\ in_memory(loc[p], clock + 1).templates # registry.templates

\* C17: a remove deletes the directory only after it has saved the registry;
\* a remove that crashed between the two steps leaves, as long as no other
\* process saves, a registry without the id.
C17_SaveBeforeDelete ==
    \A p \in Procs :
        loc[p].op = "remove" =>
            /\ loc[p].deleted => loc[p].saved_at # 0
            /\ (pc[p] = "crashed" /\ loc[p].at = "rmtree") =>
                    /\ loc[p].saved_at # 0
                    /\ ~loc[p].deleted
                    /\ clock = loc[p].saved_at => ~HasId(registry.templates, loc[p].id)

\* A remove that crashed after its save: the directory is still there and
\* the registry has no record for it.
C17_Witness ==
    \E p \in Procs :
        /\ loc[p].op = "remove"
        /\ pc[p] = "crashed"
        /\ loc[p].at = "rmtree"
        /\ dirs[loc[p].id].exists
        /\ ~HasId(registry.templates, loc[p].id)

\* p saved first, q had loaded before that save, q saved last.
C18_Raced(p, q) ==
    /\ p # q
    /\ loc[p].saved_at # 0
    /\ loc[q].saved_at # 0
    /\ loc[p].saved_at < loc[q].saved_at
    /\ loc[q].loaded_at < loc[p].saved_at
    /\ clock = loc[q].saved_at

\* C18: when a process saves after another one whose save came after its own
\* load, the file is the document it built from what it had loaded, without
\* the other's change, and neither of them fails.
C18_LastWriteWins ==
    \A p, q \in Procs :
        C18_Raced(p, q) =>
            /\ registry = save_registry(in_memory(loc[q], loc[q].saved_at))
            /\ loc[q].doc # save_registry(in_memory(loc[p], loc[p].saved_at))
            /\ pc[p] = "done" => loc[p].result = "True"
            /\ pc[q] = "done" => loc[q].result = "True"

\* Two creates of different templates raced; both returned True and the
\* record of the first saver is not in the file.
C18_Witness ==
    \E p, q \in Procs :
        /\ C18_Raced(p, q)
        /\ loc[p].op = "create" /\ loc[q].op = "create"
        /\ pc[p] = "done" /\ pc[q] = "done"
        /\ loc[p].fields["id"] # loc[q].fields["id"]
        /\ loc[p].id # loc[q].id
        /\ ~HasId(registry.templates, loc[p].fields["id"])

C21_FetchFailed == last.op = "sync" /\ last.fetch \in {"transport", "status", "corrupt", "nodirs"}

\* C21: when the download, the extraction or the search for a top-level
\* directory fails, sync_from_remote has not deleted anything: the template
\* directory of the id, and every other one, is as it was before the call.
C21_DeleteOnlyAfterFetch ==
    C21_FetchFailed =>
        /\ dirs[last.id] = before.dirs[last.id]
        /\ dirs = before.dirs

\* A sync whose archive was corrupt, for a template whose directory exists
\* and holds files.
C21_Witness ==
    /\ C21_FetchFailed
    /\ last.fetch = "corrupt"
    /\ before.dirs[last.id].exists
    /\ dirs[last.id].entries # {}

====
